---- MODULE Spec2Model ----
(***************************************************************************)
(* Model of the patient-risk scoring engine of the backend:                *)
(*   backend/src/utils/error_handling.py        (ErrorHandler, wrappers)   *)
(*   backend/src/utils/patient_risk_ml_client.py (PatientRiskMLClient)     *)
(*   backend/src/utils/ml_client.py              (RiskModelClient)         *)
(*   backend/src/services/risk_assessment_service.py                       *)
(*   backend/src/repositories/risk_assessment_repository.py                *)
(*                                                                         *)
(* Units.  Time is counted in hundredths of a second (1 s = 100), so the   *)
(* back-off sleeps 1.0 s and 1.5 s are integers.  Scores are counted in    *)
(* hundredths of a point (10.0 = 1000, 100.0 = 10000), so the normalised   *)
(* 0.0-1.0 scores of RiskModelClient (0.7 = 70) and the 0-100 scores of    *)
(* PatientRiskMLClient live on one integer scale.  Temperatures are in     *)
(* tenths of a degree Celsius.                                             *)
(***************************************************************************)
EXTENDS Integers, Sequences, FiniteSets, TLC

(***************************************************************************)
(* Bounds of the model (not program constants).                            *)
(***************************************************************************)
MaxTime == 40000
MaxErrors == 8
MaxAssessments == 2
MaxStoreFailures == 2
MaxRecorded == 5
MaxRetryAttempts == 3
MaxRetryTime == 2500

(***************************************************************************)
(* The clock step used by the environment: 200 s.                          *)
(***************************************************************************)
TickStep == 200 * 100

(***************************************************************************)
(* ErrorCategory values (error_handling.py:28-38) that the engine uses.    *)
(***************************************************************************)
EXTERNAL_SERVICE == "external_service"
BUSINESS_LOGIC == "business_logic"

(***************************************************************************)
(* Exception classes, by class name, and the class hierarchy.              *)
(***************************************************************************)
ExceptionClasses ==
    { "Exception", "ValueError", "RuntimeError",
      "PatientRiskMLError", "ModelPredictionError",
      "MLModelError", "MLModelTimeoutError", "MLModelValidationError",
      "MLModelResponseError",
      "RiskAssessmentServiceError", "PatientNotFoundError" }

BaseClass(cls) ==
    CASE cls = "ModelPredictionError" -> "PatientRiskMLError"
      [] cls = "MLModelTimeoutError" -> "MLModelError"
      [] cls = "MLModelValidationError" -> "MLModelError"
      [] cls = "MLModelResponseError" -> "MLModelError"
      [] cls = "PatientNotFoundError" -> "RiskAssessmentServiceError"
      [] OTHER -> "Exception"

\* isinstance(e, cls) for an exception e of class exc (hierarchy depth <= 2)
IsInstance(exc, cls) ==
    \/ cls = exc
    \/ cls = BaseClass(exc)
    \/ cls = BaseClass(BaseClass(exc))

(***************************************************************************)
(* Dictionary keys.  Both keys are f-strings "<prefix>_<suffix>"; a pair   *)
(* <<prefix, suffix>> is equal to another exactly when the strings are.    *)
(***************************************************************************)
\* Mutant: the key is built from the name of the service.
ErrorKey_ByService(category, exc) == <<category, "patient_risk_ml_model">>

\* error_key = f"{category.value}_{type(exception).__name__}"
ErrorKey(category, exc) == <<category, exc>>

\* circuit_key = f"external_service_{service_name}"
CircuitKey(service_name) == <<"external_service", service_name>>

\* dict.get(key, 0)
Get(d, key) == IF key \in DOMAIN d THEN d[key] ELSE 0

\* d[key] = value
Put(d, key, value) ==
    [k \in DOMAIN d \cup {key} |-> IF k = key THEN value ELSE d[k]]

\* del d[key]
Del(d, key) == [k \in DOMAIN d \ {key} |-> d[k]]

EmptyDict == [k \in {} |-> 0]

(***************************************************************************)
(* ErrorHandler                                                            *)
(***************************************************************************)
CooldownSeconds == 300
BreakerThreshold == 5

\* Mutant: the breaker opens only when the count is exactly the threshold.
CheckCircuitBreaker_OnlyAtThreshold(ec, cb, category, error_key, t) ==
    IF category = EXTERNAL_SERVICE
       /\ Get(ec, error_key) = BreakerThreshold
       /\ error_key \notin DOMAIN cb
    THEN Put(cb, error_key,
             [opened_at |-> t, error_count |-> Get(ec, error_key)])
    ELSE cb

\* Mutant: an existing entry is written again on every further failure.
CheckCircuitBreaker_Refresh(ec, cb, category, error_key, t) ==
    IF category = EXTERNAL_SERVICE
       /\ Get(ec, error_key) >= BreakerThreshold
    THEN Put(cb, error_key,
             [opened_at |-> t, error_count |-> Get(ec, error_key)])
    ELSE cb

\* ErrorHandler._check_circuit_breaker: the new circuit_breakers dict
CheckCircuitBreaker(ec, cb, category, error_key, t) ==
    IF category = EXTERNAL_SERVICE
       /\ Get(ec, error_key) >= BreakerThreshold
       /\ error_key \notin DOMAIN cb
    THEN Put(cb, error_key,
             [opened_at |-> t, error_count |-> Get(ec, error_key)])
    ELSE cb

\* ErrorHandler.handle_error: the new (error_count, circuit_breakers)
HandleError(h, exc, category, t) ==
    LET error_key == ErrorKey(category, exc)
        ec1 == Put(h.ec, error_key, Get(h.ec, error_key) + 1)
    IN [ec |-> ec1,
        cb |-> CheckCircuitBreaker(ec1, h.cb, category, error_key, t)]

\* ErrorHandler.is_circuit_open: the answer and the new circuit_breakers
IsCircuitOpen(cb, service_key, t) ==
    IF service_key \notin DOMAIN cb
    THEN [open |-> FALSE, cb |-> cb]
    ELSE IF t - cb[service_key].opened_at > CooldownSeconds * 100
         THEN [open |-> FALSE, cb |-> Del(cb, service_key)]
         ELSE [open |-> TRUE, cb |-> cb]

\* ErrorHandler.get_error_statistics: the "circuit_breakers" part of the view
GetErrorStatistics(ec, cb) ==
    [error_counts |-> ec,
     circuit_breakers |->
        [k \in DOMAIN cb |-> [opened_at |-> cb[k].opened_at,
                              error_count |-> cb[k].error_count]]]

(***************************************************************************)
(* Inputs of an assessment: the Patient and VitalSigns records.            *)
(***************************************************************************)
HeartRates == {25, 72}
SystolicBPs == {120}
DiastolicBPs == {80}
RespiratoryRates == {16}
OxygenSaturations == {90}
Temperatures == {370}
AcuityLevels == {2, 5}
ArrivalModes == {"Ambulance"}

Inputs ==
    [heart_rate : HeartRates, systolic_bp : SystolicBPs,
     diastolic_bp : DiastolicBPs, respiratory_rate : RespiratoryRates,
     oxygen_saturation : OxygenSaturations, temperature : Temperatures,
     arrival_mode : ArrivalModes, acuity_level : AcuityLevels]

(***************************************************************************)
(* RiskAssessmentService.validate_model_inputs: the list of errors, one    *)
(* entry (the field name) per failed check, in the order of the checks.    *)
(***************************************************************************)
ErrIf(cond, name) == IF cond THEN <<name>> ELSE <<>>

\* Mutant: the checks stop at the first one that fails.
ValidationErrors_FailFast(in) ==
    IF ~(30 <= in.heart_rate /\ in.heart_rate <= 200)
    THEN <<"heart_rate">>
    ELSE IF ~(50 <= in.systolic_bp /\ in.systolic_bp <= 300)
    THEN <<"systolic_bp">>
    ELSE IF ~(20 <= in.diastolic_bp /\ in.diastolic_bp <= 200)
    THEN <<"diastolic_bp">>
    ELSE IF ~(5 <= in.respiratory_rate /\ in.respiratory_rate <= 60)
    THEN <<"respiratory_rate">>
    ELSE IF ~(50 <= in.oxygen_saturation /\ in.oxygen_saturation <= 100)
    THEN <<"oxygen_saturation">>
    ELSE IF ~(300 <= in.temperature /\ in.temperature <= 450)
    THEN <<"temperature">>
    ELSE IF in.diastolic_bp >= in.systolic_bp
    THEN <<"bp_relationship">>
    ELSE IF in.arrival_mode \notin {"Ambulance", "Walk-in"}
    THEN <<"arrival_mode">>
    ELSE IF ~(1 <= in.acuity_level /\ in.acuity_level <= 5)
    THEN <<"acuity_level">>
    ELSE <<>>

ValidationErrors(in) ==
    ErrIf(~(30 <= in.heart_rate /\ in.heart_rate <= 200), "heart_rate")
    \o ErrIf(~(50 <= in.systolic_bp /\ in.systolic_bp <= 300), "systolic_bp")
    \o ErrIf(~(20 <= in.diastolic_bp /\ in.diastolic_bp <= 200), "diastolic_bp")
    \o ErrIf(~(5 <= in.respiratory_rate /\ in.respiratory_rate <= 60),
             "respiratory_rate")
    \o ErrIf(~(50 <= in.oxygen_saturation /\ in.oxygen_saturation <= 100),
             "oxygen_saturation")
    \o ErrIf(~(300 <= in.temperature /\ in.temperature <= 450), "temperature")
    \o ErrIf(in.diastolic_bp >= in.systolic_bp, "bp_relationship")
    \o ErrIf(in.arrival_mode \notin {"Ambulance", "Walk-in"}, "arrival_mode")
    \o ErrIf(~(1 <= in.acuity_level /\ in.acuity_level <= 5), "acuity_level")

ValidateModelInputs(in) ==
    [valid |-> Len(ValidationErrors(in)) = 0, errors |-> ValidationErrors(in)]

\* Mutant: the validation result is ignored.
PrepareModelInput_NoCheck(in) ==
    [kind |-> "return", exception |-> "None"]

\* RiskAssessmentService.prepare_model_input: the input, or the exception
PrepareModelInput(in) ==
    IF ValidateModelInputs(in).valid
    THEN [kind |-> "return", exception |-> "None"]
    ELSE [kind |-> "raise", exception |-> "MLModelValidationError"]

(***************************************************************************)
(* RiskAssessmentService._fallback_risk_assessment                         *)
(***************************************************************************)
AcuityRisk(acuity_level) ==
    CASE acuity_level = 1 -> 1000
      [] acuity_level = 2 -> 2000
      [] acuity_level = 3 -> 4000
      [] acuity_level = 4 -> 6000
      [] acuity_level = 5 -> 8000
      [] OTHER -> 5000

Min(a, b) == IF a < b THEN a ELSE b
Max(a, b) == IF a > b THEN a ELSE b

\* Mutant: the upper limits count as abnormal.
FallbackRawScore_Inclusive(in) ==
    AcuityRisk(in.acuity_level)
    + (IF in.heart_rate >= 100 \/ in.heart_rate < 60 THEN 1000 ELSE 0)
    + (IF in.systolic_bp >= 140 \/ in.systolic_bp < 90 THEN 1000 ELSE 0)
    + (IF in.oxygen_saturation < 95 THEN 2000 ELSE 0)
    + (IF in.temperature >= 380 \/ in.temperature < 360 THEN 1000 ELSE 0)
    + (IF in.respiratory_rate >= 20 \/ in.respiratory_rate < 12
       THEN 1000 ELSE 0)
    + (IF in.arrival_mode = "Ambulance" THEN 1000 ELSE 0)

FallbackRawScore(in) ==
    AcuityRisk(in.acuity_level)
    + (IF in.heart_rate > 100 \/ in.heart_rate < 60 THEN 1000 ELSE 0)
    + (IF in.systolic_bp > 140 \/ in.systolic_bp < 90 THEN 1000 ELSE 0)
    + (IF in.oxygen_saturation < 95 THEN 2000 ELSE 0)
    + (IF in.temperature > 380 \/ in.temperature < 360 THEN 1000 ELSE 0)
    + (IF in.respiratory_rate > 20 \/ in.respiratory_rate < 12
       THEN 1000 ELSE 0)
    + (IF in.arrival_mode = "Ambulance" THEN 1000 ELSE 0)

\* Mutant: the score is not clamped to 0..100.
FallbackRiskAssessment_NoClamp(in) ==
    LET risk_score == FallbackRawScore(in)
    IN [risk_score |-> risk_score,
        risk_flag |-> (risk_score > 5000 \/ in.acuity_level >= 4)]

FallbackRiskAssessment(in) ==
    LET risk_score == Min(10000, Max(0, FallbackRawScore(in)))
    IN [risk_score |-> risk_score,
        risk_flag |-> (risk_score > 5000 \/ in.acuity_level >= 4)]

\* Mutant: the category is taken from the score alone.
FallbackCategory_ByScore(fb) ==
    IF fb.risk_score > 7000 THEN "HIGH"
    ELSE IF fb.risk_score > 5000 THEN "MODERATE" ELSE "LOW"

\* risk_category = "HIGH" if risk_flag
\*                 else ("MODERATE" if risk_score > 50 else "LOW")
FallbackCategory(fb) ==
    IF fb.risk_flag THEN "HIGH"
    ELSE IF fb.risk_score > 5000 THEN "MODERATE" ELSE "LOW"

(***************************************************************************)
(* The probability model behind the clients (the environment).  An outcome *)
(* is a response (score, second component) or a raised exception.  For     *)
(* PatientRiskMLClient the second component is final_triage_category, for  *)
(* RiskModelClient it is the boolean risk_flag (written "bool:...").       *)
(***************************************************************************)
Clients == {"PatientRisk", "Legacy"}

ModelScores == {-500, 7000}
ModelCategories == {"MODERATE", "HIGH", "CRITICAL"}
LegacyScores == {70, 150}
LegacyFlags == {"bool:True", "bool:False"}

DepOutcomes(cl) ==
    IF cl = "PatientRisk"
    THEN [kind : {"response"}, score : ModelScores, second : ModelCategories,
          exception : {"None"}]
         \cup [kind : {"raise"}, score : {0}, second : {"None"},
               exception : {"RuntimeError"}]
    ELSE [kind : {"response"}, score : LegacyScores, second : LegacyFlags,
          exception : {"None"}]
         \cup [kind : {"raise"}, score : {0}, second : {"None"},
               exception : {"MLModelTimeoutError"}]

Return(score, second) ==
    [kind |-> "return", exception |-> "None", score |-> score,
     second |-> second]

Raise(exc) ==
    [kind |-> "raise", exception |-> exc, score |-> 0, second |-> "None"]

ValidCategories == {"LOW", "MODERATE", "HIGH"}

\* Mutant: the category of the response is not validated.
PatientRiskPredictBody_NoCategoryCheck(dep) ==
    IF dep.kind = "raise"
    THEN Raise("ModelPredictionError")
    ELSE IF ~(0 <= dep.score /\ dep.score <= 10000)
         THEN Raise("ModelPredictionError")
         ELSE Return(dep.score, dep.second)

\* Body of PatientRiskMLClient.predict_risk (inside its error_context)
PatientRiskPredictBody(dep) ==
    IF dep.kind = "raise"
    THEN Raise("ModelPredictionError")
    ELSE IF ~(0 <= dep.score /\ dep.score <= 10000)
         THEN Raise("ModelPredictionError")
         ELSE IF dep.second \notin ValidCategories
              THEN Raise("ModelPredictionError")
              ELSE Return(dep.score, dep.second)

\* RiskModelClient._validate_response
LegacyValidateResponse(dep) ==
    IF ~(0 <= dep.score /\ dep.score <= 100)
    THEN Raise("MLModelResponseError")
    ELSE IF dep.second \notin {"bool:True", "bool:False"}
         THEN Raise("MLModelResponseError")
         ELSE Return(dep.score, dep.second)

\* Body of RiskModelClient.predict_risk (inside its error_context)
LegacyPredictBody(in, dep) ==
    IF Len(ValidationErrors(in)) > 0
    THEN Raise("MLModelValidationError")
    ELSE IF dep.kind = "raise"
         THEN Raise(dep.exception)
         ELSE LegacyValidateResponse(dep)

PredictBody(cl, in, dep) ==
    IF cl = "PatientRisk" THEN PatientRiskPredictBody(dep)
    ELSE LegacyPredictBody(in, dep)

\* service_name of the retry wrapper around predict_risk
PredictServiceName(cl) ==
    IF cl = "PatientRisk" THEN "patient_risk_ml_model" ELSE "ml_risk_model"

(***************************************************************************)
(* error_context: on an exception, record it and re-raise.                 *)
(***************************************************************************)
\* Mutant: the context manager re-raises without recording the error.
ErrorContext_Silent(res, category, h, t) == h

ErrorContext(res, category, h, t) ==
    IF res.kind = "raise" THEN HandleError(h, res.exception, category, t)
    ELSE h

(***************************************************************************)
(* monitor_external_service, the pieces of the wrapper.                    *)
(***************************************************************************)
\* Mutant: the exponent is the number of the attempt, counted from one.
BackoffWait_FromOne(attempt) ==
    (100 * (15 ^ (attempt + 1))) \div (10 ^ (attempt + 1))

\* wait_time = backoff_factor ** attempt, backoff_factor = 1.5
BackoffWait(attempt) == (100 * (15 ^ attempt)) \div (10 ^ attempt)

\* except-branch of the wrapper: handle_error(category=EXTERNAL_SERVICE)
WrapperOnFailure(h, exc, t) == HandleError(h, exc, EXTERNAL_SERVICE, t)

\* Mutant: the last attempt is not recognised.
IsLastAttempt_OffByOne(attempt, retry_attempts) == attempt = retry_attempts

\* attempt == retry_attempts - 1
IsLastAttempt(attempt, retry_attempts) == attempt = retry_attempts - 1

CircuitOpenException == "Exception"

(***************************************************************************)
(* predict_risk as the service calls it: monitor_external_service with     *)
(* retry_attempts=1 around the body with its error_context.  One attempt,  *)
(* so no sleep.  invoked tells whether the wrapped function ran.           *)
(***************************************************************************)
PredictRisk(cl, in, dep, h, t) ==
    LET chk == IsCircuitOpen(h.cb, CircuitKey(PredictServiceName(cl)), t)
        h0 == [ec |-> h.ec, cb |-> chk.cb]
        res == PredictBody(cl, in, dep)
        h1 == ErrorContext(res, EXTERNAL_SERVICE, h0, t)
        h2 == IF res.kind = "raise" THEN WrapperOnFailure(h1, res.exception, t)
              ELSE h1
    IN IF chk.open
       THEN [res |-> Raise(CircuitOpenException), h |-> h0, invoked |-> FALSE]
       ELSE [res |-> res, h |-> h2, invoked |-> TRUE]

(***************************************************************************)
(* RiskAssessmentRepository.create: the stored record or an exception.     *)
(* db is what the database does: it accepts the row ("ok"), it fails in    *)
(* add/commit ("commit_fails": nothing is stored, the rollback discards    *)
(* the pending row), or it commits the row and fails in the refresh that   *)
(* follows ("refresh_fails": the row is stored, the rollback has nothing   *)
(* left to undo).  stored tells whether the row is in the table.           *)
(***************************************************************************)
DbOutcomes == {"ok", "commit_fails", "refresh_fails"}

NoInput ==
    [heart_rate |-> 0, systolic_bp |-> 0, diastolic_bp |-> 0,
     respiratory_rate |-> 0, oxygen_saturation |-> 0, temperature |-> 0,
     arrival_mode |-> "None", acuity_level |-> 0]

NoResponse ==
    [kind |-> "none", score |-> 0, second |-> "None", exception |-> "None"]

NoAssessment ==
    [risk_score |-> 0, risk_category |-> "None", risk_flag |-> FALSE,
     error_message |-> <<>>, source |-> "None", input |-> NoInput,
     assessment_time |-> 0]

Create(rec, db) ==
    IF ~(0 <= rec.risk_score /\ rec.risk_score <= 10000)
    THEN [kind |-> "raise", exception |-> "ValueError", stored |-> FALSE]
    ELSE IF rec.risk_category \notin ValidCategories
    THEN [kind |-> "raise", exception |-> "ValueError", stored |-> FALSE]
    ELSE IF db = "commit_fails"
    THEN [kind |-> "raise", exception |-> "SQLAlchemyError",
          stored |-> FALSE]
    ELSE IF db = "refresh_fails"
    THEN [kind |-> "raise", exception |-> "SQLAlchemyError",
          stored |-> TRUE]
    ELSE [kind |-> "return", exception |-> "None", stored |-> TRUE]

(***************************************************************************)
(* The except clauses of _perform_risk_assessment, in source order: the    *)
(* first clause whose classes match handles the exception.  The result is  *)
(* the prefix of error_message.                                            *)
(***************************************************************************)
ExceptClause(exc) ==
    IF IsInstance(exc, "PatientRiskMLError")
       \/ IsInstance(exc, "ModelPredictionError")
    THEN "Patient Risk ML model error"
    ELSE IF IsInstance(exc, "MLModelTimeoutError")
    THEN "ML model timeout"
    ELSE IF IsInstance(exc, "MLModelValidationError")
    THEN "ML model input validation failed"
    ELSE IF IsInstance(exc, "MLModelResponseError")
    THEN "ML model response error"
    ELSE IF IsInstance(exc, "MLModelError")
    THEN "ML model error"
    ELSE "Unexpected error during ML model prediction"

\* error_message = f"<prefix>: {str(e)}"
\* Mutant: only the generic except clause exists.
ErrorMessage_Generic(exc) == <<"Unexpected error", exc>>

ErrorMessage(exc) == <<ExceptClause(exc), exc>>

(***************************************************************************)
(* Body of RiskAssessmentService._perform_risk_assessment, one run.        *)
(*   scored : what the try/except part leaves in risk_score, risk_category,*)
(*            risk_flag, error_message                                     *)
(*   res    : the record returned, or the exception that leaves the body   *)
(***************************************************************************)
\* Mutant: the except clause forgets to set error_message.
DegradedRecord_NoMessage(in, exc) ==
    LET fb == FallbackRiskAssessment(in)
    IN [risk_score |-> fb.risk_score,
        risk_category |-> FallbackCategory(fb),
        risk_flag |-> fb.risk_flag,
        error_message |-> <<>>,
        source |-> "Fallback", input |-> in, assessment_time |-> 0]

\* Mutant: the fallback score depends on which error preceded it.
DegradedRecord_ScoreByCause(in, exc) ==
    LET fb == FallbackRiskAssessment(in)
    IN [risk_score |-> IF exc = "MLModelTimeoutError" THEN 0
                       ELSE fb.risk_score,
        risk_category |-> FallbackCategory(fb),
        risk_flag |-> fb.risk_flag,
        error_message |-> ErrorMessage(exc),
        source |-> "Fallback", input |-> in, assessment_time |-> 0]

DegradedRecord(in, exc) ==
    LET fb == FallbackRiskAssessment(in)
    IN [risk_score |-> fb.risk_score,
        risk_category |-> FallbackCategory(fb),
        risk_flag |-> fb.risk_flag,
        error_message |-> ErrorMessage(exc),
        source |-> "Fallback", input |-> in, assessment_time |-> 0]

ModelRecord(in, val) ==
    [risk_score |-> val.score,
     risk_category |-> val.second,
     risk_flag |-> (val.second = "HIGH"),
     error_message |-> <<>>,
     source |-> "ModelBased", input |-> in, assessment_time |-> 0]

\* Mutant: the except clauses are missing, a model error leaves the body.
PerformBody_Uncaught(cl, in, dep, db, h, t) ==
    LET prep == PrepareModelInput(in)
        pr == PredictRisk(cl, in, dep, h, t)
        failed == prep.kind = "raise" \/ pr.res.kind = "raise"
        scored == IF failed THEN NoAssessment ELSE ModelRecord(in, pr.res)
        h1 == IF prep.kind = "raise" THEN h ELSE pr.h
        cr == Create(scored, db)
    IN [scored |-> scored,
        invoked |-> (prep.kind = "return" /\ pr.invoked),
        model_error |-> IF prep.kind = "raise" THEN "None"
                        ELSE pr.res.exception,
        store_failed |-> (~failed /\ cr.exception = "SQLAlchemyError"),
        stored |-> (~failed /\ cr.stored),
        res |-> IF failed
                THEN [kind |-> "raise",
                      exception |-> IF prep.kind = "raise"
                                    THEN prep.exception
                                    ELSE pr.res.exception]
                ELSE IF cr.kind = "return"
                THEN [kind |-> "return", exception |-> "None"]
                ELSE IF cr.exception = "SQLAlchemyError"
                     THEN [kind |-> "raise",
                           exception |-> "RiskAssessmentServiceError"]
                     ELSE [kind |-> "raise", exception |-> cr.exception],
        h |-> h1]

PerformBody(cl, in, dep, db, h, t) ==
    LET prep == PrepareModelInput(in)
        pr == PredictRisk(cl, in, dep, h, t)
        scored == IF prep.kind = "raise"
                  THEN DegradedRecord(in, prep.exception)
                  ELSE IF pr.res.kind = "raise"
                       THEN DegradedRecord(in, pr.res.exception)
                       ELSE ModelRecord(in, pr.res)
        h1 == IF prep.kind = "raise" THEN h ELSE pr.h
        cr == Create(scored, db)
    IN [scored |-> scored,
        invoked |-> (prep.kind = "return" /\ pr.invoked),
        model_error |-> IF prep.kind = "raise" THEN "None"
                        ELSE pr.res.exception,
        store_failed |-> (cr.exception = "SQLAlchemyError"),
        stored |-> cr.stored,
        res |-> IF cr.kind = "return"
                THEN [kind |-> "return", exception |-> "None"]
                ELSE IF cr.exception = "SQLAlchemyError"
                     THEN [kind |-> "raise",
                           exception |-> "RiskAssessmentServiceError"]
                     ELSE [kind |-> "raise", exception |-> cr.exception],
        h |-> h1]

(***************************************************************************)
(* The risk_assessments table.  assessment_time is datetime.utcnow() read  *)
(* at the start of the run that creates the row.  The rows are only        *)
(* compared by that stamp, and a later run reads a later clock value, so   *)
(* the stamp is kept as a rank: one more than the largest stamp stored.    *)
(***************************************************************************)
RECURSIVE MaxStamp(_)
MaxStamp(table) ==
    IF table = <<>> THEN 0
    ELSE Max(table[1].assessment_time, MaxStamp(Tail(table)))

\* assessment_time = datetime.utcnow()
NextStamp(table) == MaxStamp(table) + 1

\* Mutant: db.add replaces the rows of the patient.
Insert_Replace(table, rec) ==
    <<[rec EXCEPT !.assessment_time = NextStamp(table)]>>

\* RiskAssessmentRepository.create: db.add(risk_assessment); db.commit()
Insert(table, rec) ==
    Append(table, [rec EXCEPT !.assessment_time = NextStamp(table)])

\* Mutant: the rows are ordered by assessment_time ascending.
GetLatestForPatient_Oldest(table) ==
    IF table = <<>> THEN NoAssessment
    ELSE CHOOSE r \in {table[i] : i \in 1..Len(table)} :
            \A j \in 1..Len(table) :
               table[j].assessment_time >= r.assessment_time

\* RiskAssessmentRepository.get_latest_for_patient:
\* order_by(desc(assessment_time)).first()
GetLatestForPatient(table) ==
    IF table = <<>> THEN NoAssessment
    ELSE CHOOSE r \in {table[i] : i \in 1..Len(table)} :
            \A j \in 1..Len(table) :
               table[j].assessment_time <= r.assessment_time

\* Mutant: the endpoint does not catch the failure of the assessment.
UpdateResponse_NoCatch(res) ==
    IF res.kind = "returned" THEN "success" ELSE "HTTP 500"

\* api/vitals.py update_vital_signs: what the endpoint answers once the
\* vital signs are stored and the assessment call has ended.
UpdateResponse(res) ==
    IF res.kind = "returned" THEN "success"
    ELSE IF IsInstance(res.exception, "RiskAssessmentServiceError")
         THEN "success"
         ELSE "HTTP 500"

(***************************************************************************)
(* assess_risk_for_vital_signs, the public entry: an exception leaving     *)
(* _perform_risk_assessment is recorded by its error_context and again by  *)
(* its handle_service_error decorator (both BUSINESS_LOGIC), then raised.  *)
(***************************************************************************)
AssessBoundary(h, exc, t) ==
    HandleError(HandleError(h, exc, BUSINESS_LOGIC, t), exc, BUSINESS_LOGIC, t)

\* @monitor_external_service("ml_risk_model", ..., retry_attempts=2)
PerformServiceName == "ml_risk_model"
PerformRetryAttempts == 2

(***************************************************************************)
(* State.                                                                  *)
(*   error_count, circuit_breakers : global_error_handler's dictionaries   *)
(*   now            : the clock (datetime.utcnow / time.time)              *)
(*   client         : which client the service holds in ml_client          *)
(*   pc, call       : position and locals of the assessment call in flight *)
(*   result         : how the last assessment call ended                   *)
(*   assessments    : the risk_assessments table, in creation order        *)
(*   store_failures : database failures so far                             *)
(*   invocations    : runs of the wrapped predict_risk in the current call *)
(*   slept          : the sleeps of the current call, in order             *)
(*   thr            : threads inside ErrorHandler's methods (SpecThreads)  *)
(*   vital_signs    : the latest stored VitalSigns row of the patient      *)
(*   wr             : a call through monitor_external_service (SpecRetry)  *)
(*   sc             : an evaluation of the scoring functions (SpecScore)   *)
(*   fn             : an evaluation of the service's validation or         *)
(*                    fallback scoring (SpecInput)                         *)
(***************************************************************************)
VARIABLES error_count, circuit_breakers, now, client, pc, call, result,
          assessments, store_failures, invocations, slept, thr,
          vital_signs, wr, sc, fn

vars == <<error_count, circuit_breakers, now, client, pc, call, result,
          assessments, store_failures, invocations, slept, thr,
          vital_signs, wr, sc, fn>>

Threads == {1, 2}

\* No thread is inside a method of the handler.
ThrIdle ==
    [pc |-> [t \in Threads |-> "idle"], tmp |-> [t \in Threads |-> 0],
     recorded |-> 0, opened |-> FALSE, key_error |-> FALSE]

\* No call through the wrapper is in progress and none has ended.
WrIdle ==
    [pc |-> "idle", retry_attempts |-> 0, attempt |-> 0, calls |-> 0,
     failures |-> 0, slept |-> <<>>, outcome |-> "none", value |-> "None",
     exception |-> "None", last_value |-> "None", duration |-> 0,
     warned |-> FALSE]

(***************************************************************************)
(* ML_models/Patient_risk_classification/inference.py: the scoring rules.  *)
(* A probability p is counted in 1/10000 (0.45 = 4500), so that            *)
(* ml_score = p * 100 is the same integer in hundredths of a point;        *)
(* clinical adjustments are in hundredths of a point too (20 = 2000).      *)
(***************************************************************************)
Levels == <<"LOW", "MODERATE", "HIGH", "CRITICAL">>

\* levels.index(category), counted from 1
LevelIndex(category) == CHOOSE i \in 1..Len(Levels) : Levels[i] = category

\* Mutant: the first band includes its upper threshold.
MlRiskBand_Inclusive(probability) ==
    IF probability <= 4500 THEN "LOW"
    ELSE IF probability < 6500 THEN "MODERATE"
    ELSE IF probability < 8500 THEN "HIGH"
    ELSE "CRITICAL"

MlRiskBand(probability) ==
    IF probability < 4500 THEN "LOW"
    ELSE IF probability < 6500 THEN "MODERATE"
    ELSE IF probability < 8500 THEN "HIGH"
    ELSE "CRITICAL"

\* Mutant: the result is clamped to HIGH instead of CRITICAL.
EscalateRisk_ClampHigh(base_category, clinical_adjustment) ==
    LET idx == LevelIndex(base_category)
        idx2 == IF clinical_adjustment >= 4000 THEN idx + 2
                ELSE IF clinical_adjustment >= 2000 THEN idx + 1
                ELSE idx
    IN Levels[Min(idx2, 3)]

EscalateRisk(base_category, clinical_adjustment) ==
    LET idx == LevelIndex(base_category)
        idx2 == IF clinical_adjustment >= 4000 THEN idx + 2
                ELSE IF clinical_adjustment >= 2000 THEN idx + 1
                ELSE idx
    IN Levels[Min(idx2, 4)]

CollapseToThreeLevels(final_category) ==
    IF final_category \in {"HIGH", "CRITICAL"} THEN "HIGH"
    ELSE IF final_category = "MODERATE" THEN "MODERATE"
    ELSE "LOW"

\* Mutant: the acuity rules are tried from the lowest level up.
ClinicalAdjustment_AcuityOrder(patient) ==
    (IF patient.o2sat < 88 THEN 2000
     ELSE IF patient.o2sat < 92 THEN 1000 ELSE 0)
    + (IF patient.sbp < 90 THEN 1500 ELSE 0)
    + (IF patient.resprate > 24 THEN 1000 ELSE 0)
    + (IF patient.heartrate > 120 THEN 1000
       ELSE IF patient.heartrate < 40 THEN 1000 ELSE 0)
    + (IF patient.acuity >= 2 THEN 500
       ELSE IF patient.acuity >= 3 THEN 1000
       ELSE IF patient.acuity >= 4 THEN 1500 ELSE 0)
    + (IF patient.arrival_ambulance = 1 THEN 500 ELSE 0)

\* The rules of calculate_risk_score, in source order
ClinicalAdjustment(patient) ==
    (IF patient.o2sat < 88 THEN 2000
     ELSE IF patient.o2sat < 92 THEN 1000 ELSE 0)
    + (IF patient.sbp < 90 THEN 1500 ELSE 0)
    + (IF patient.resprate > 24 THEN 1000 ELSE 0)
    + (IF patient.heartrate > 120 THEN 1000
       ELSE IF patient.heartrate < 40 THEN 1000 ELSE 0)
    + (IF patient.acuity >= 4 THEN 1500
       ELSE IF patient.acuity >= 3 THEN 1000
       ELSE IF patient.acuity >= 2 THEN 500 ELSE 0)
    + (IF patient.arrival_ambulance = 1 THEN 500 ELSE 0)

\* Mutant: the sum is not clamped.
FinalScore_NoClamp(ml_score, clinical_adjustment) ==
    ml_score + clinical_adjustment

\* final_score = min(ml_score + clinical_adjustment, 100)
FinalScore(ml_score, clinical_adjustment) ==
    Min(ml_score + clinical_adjustment, 10000)

\* round(x, 1) on hundredths; the values drawn have no tie (x.x5)
Round1(x) == ((x + 5) \div 10) * 10

NoPatient ==
    [heartrate |-> 0, sbp |-> 0, resprate |-> 0, o2sat |-> 0, acuity |-> 0,
     arrival_ambulance |-> 0]

\* No evaluation of the scoring functions has been made.
ScIdle ==
    [kind |-> "none", probability |-> 0, patient |-> NoPatient,
     ml_score |-> 0, clinical_adjustment |-> 0, base_category |-> "None",
     final_category |-> "None", final_score |-> 0, risk_score |-> 0,
     final_triage_category |-> "None"]

\* calculate_risk_score, with final_triage_category as predict_patient_risk
\* adds it
CalculateRiskScore(probability, patient) ==
    LET ml_score == probability
        clinical_adjustment == ClinicalAdjustment(patient)
        base_category == MlRiskBand(probability)
        final_category == EscalateRisk(base_category, clinical_adjustment)
        final_score == FinalScore(ml_score, clinical_adjustment)
    IN [kind |-> "score", probability |-> probability, patient |-> patient,
        ml_score |-> ml_score, clinical_adjustment |-> clinical_adjustment,
        base_category |-> base_category, final_category |-> final_category,
        final_score |-> final_score, risk_score |-> Round1(final_score),
        final_triage_category |-> CollapseToThreeLevels(final_category)]

\* PatientRiskMLClient.predict_risk: patient_data built from the arguments.
\* The entries 'dbp' and 'temperature' are read by the probability model
\* only, not by the scoring rules, and are left out.
PatientData(in) ==
    [heartrate |-> in.heart_rate, sbp |-> in.systolic_bp,
     resprate |-> in.respiratory_rate, o2sat |-> in.oxygen_saturation,
     acuity |-> in.acuity_level,
     arrival_ambulance |-> IF in.arrival_mode = "Ambulance" THEN 1 ELSE 0]

\* error_msg = "Model input validation failed: " + "; ".join(errors)
PrepareErrorMsg(errors) == <<"Model input validation failed">> \o errors

\* No evaluation of validate_model_inputs or _fallback_risk_assessment has
\* been made.
FnIdle ==
    [kind |-> "none", input |-> NoInput, valid |-> FALSE, errors |-> <<>>,
     exception |-> "None", message |-> <<>>, risk_score |-> 0,
     risk_flag |-> FALSE, risk_category |-> "None"]

Handler == [ec |-> error_count, cb |-> circuit_breakers]

NoCall == [input |-> NoInput, attempt |-> 0]

NoResult ==
    [kind |-> "none", exception |-> "None", input |-> NoInput,
     model_error |-> "None", response |-> NoResponse]

RECURSIVE SumOver(_, _)
SumOver(d, keys) ==
    IF keys = {} THEN 0
    ELSE LET k == CHOOSE x \in keys : TRUE
         IN d[k] + SumOver(d, keys \ {k})

\* The environment raises at most MaxErrors errors in all.
WithinCount(ec) == SumOver(ec, DOMAIN ec) <= MaxErrors

Init ==
    /\ error_count = EmptyDict
    /\ circuit_breakers = EmptyDict
    /\ now = 0
    /\ client \in Clients
    /\ pc = "idle"
    /\ call = NoCall
    /\ result = NoResult
    /\ assessments = <<>>
    /\ store_failures = 0
    /\ invocations = 0
    /\ slept = <<>>
    /\ thr = ThrIdle
    /\ vital_signs = NoInput
    /\ wr = WrIdle
    /\ sc = ScIdle
    /\ fn = FnIdle

\* The clock advances between calls.
Tick ==
    /\ pc = "idle"
    /\ now + TickStep <= MaxTime
    /\ now' = now + TickStep
    /\ UNCHANGED <<error_count, circuit_breakers, client, pc, call, result,
                   assessments, store_failures, invocations, slept, thr,
                   vital_signs, wr, sc, fn>>

\* Entry of assess_risk_for_vital_signs and of the retry wrapper of
\* _perform_risk_assessment: the circuit check before the first attempt.
BeginCall(in) ==
    LET chk == IsCircuitOpen(circuit_breakers,
                             CircuitKey(PerformServiceName), now)
        hb == AssessBoundary([ec |-> error_count, cb |-> chk.cb],
                             CircuitOpenException, now)
    IN /\ pc = "idle"
       /\ Len(assessments) < MaxAssessments
       /\ vital_signs' = in
       /\ invocations' = 0
       /\ slept' = <<>>
       /\ IF chk.open
          THEN /\ WithinCount(hb.ec)
               /\ error_count' = hb.ec
               /\ circuit_breakers' = hb.cb
               /\ pc' = "idle"
               /\ call' = NoCall
               /\ result' = [NoResult EXCEPT !.kind = "raised",
                                !.exception = CircuitOpenException,
                                !.input = in]
          ELSE /\ error_count' = error_count
               /\ circuit_breakers' = chk.cb
               /\ pc' = "attempt"
               /\ call' = [input |-> in, attempt |-> 0]
               /\ result' = NoResult
       /\ UNCHANGED <<now, client, assessments, store_failures, thr, wr, sc,
                      fn>>

\* One attempt of the retry wrapper: the body runs; on an exception the
\* wrapper records it and either goes to sleep or raises the last exception.
\* A row the body has committed stays in the table whatever follows.
Attempt(dep, db) ==
    \E b \in {PerformBody(client, call.input, dep, db, Handler, now)} :
    \E hw \in {WrapperOnFailure(b.h, b.res.exception, now)} :
    \E hb \in {AssessBoundary(hw, b.res.exception, now)} :
    \E done \in {[kind |-> "returned", exception |-> "None",
                  input |-> call.input, model_error |-> b.model_error,
                  response |-> IF b.invoked THEN dep ELSE NoResponse]} :
       /\ pc = "attempt"
       /\ db # "ok" => store_failures < MaxStoreFailures
       /\ db = "refresh_fails" =>
             Len(assessments) + (PerformRetryAttempts - call.attempt)
                <= MaxAssessments
       /\ invocations' = invocations + (IF b.invoked THEN 1 ELSE 0)
       /\ store_failures' = store_failures + (IF b.store_failed THEN 1 ELSE 0)
       /\ assessments' = IF b.stored THEN Insert(assessments, b.scored)
                         ELSE assessments
       /\ IF b.res.kind = "return"
          THEN /\ WithinCount(b.h.ec)
               /\ error_count' = b.h.ec
               /\ circuit_breakers' = b.h.cb
               /\ result' = done
               /\ pc' = "idle"
               /\ call' = NoCall
          ELSE IF IsLastAttempt(call.attempt, PerformRetryAttempts)
               THEN /\ WithinCount(hb.ec)
                    /\ error_count' = hb.ec
                    /\ circuit_breakers' = hb.cb
                    /\ result' = [done EXCEPT !.kind = "raised",
                                     !.exception = b.res.exception]
                    /\ pc' = "idle"
                    /\ call' = NoCall
               ELSE /\ WithinCount(hw.ec)
                    /\ error_count' = hw.ec
                    /\ circuit_breakers' = hw.cb
                    /\ result' = result
                    /\ pc' = "sleep"
                    /\ call' = call
       /\ UNCHANGED <<now, client, slept, thr,
                   vital_signs, wr, sc, fn>>

\* time.sleep(backoff_factor ** attempt), then the next attempt
Sleep ==
    /\ pc = "sleep"
    /\ now' = now + BackoffWait(call.attempt)
    /\ slept' = Append(slept, BackoffWait(call.attempt))
    /\ call' = [call EXCEPT !.attempt = @ + 1]
    /\ pc' = "attempt"
    /\ UNCHANGED <<error_count, circuit_breakers, client, result,
                   assessments, store_failures, invocations, thr,
                   vital_signs, wr, sc, fn>>

\* RiskAssessmentRepository.delete_for_patient, between calls
DeleteForPatient ==
    /\ pc = "idle"
    /\ assessments # <<>>
    /\ assessments' = <<>>
    /\ UNCHANGED <<error_count, circuit_breakers, now, client, pc, call,
                   result, store_failures, invocations, slept, thr,
                   vital_signs, wr, sc, fn>>

Next ==
    \/ Tick
    \/ \E in \in Inputs : BeginCall(in)
    \/ \E dep \in DepOutcomes(client), db \in DbOutcomes :
          Attempt(dep, db)
    \/ Sleep
    \/ DeleteForPatient

Spec == Init /\ [][Next]_vars

(***************************************************************************)
(* ErrorHandler's methods, statement by statement, run by several threads  *)
(* on the one global_error_handler.  The class holds no lock, so another   *)
(* thread can run between any two statements.  All threads record          *)
(* failures of the same exception class, hence under the same key.         *)
(***************************************************************************)
ThreadKey == ErrorKey(EXTERNAL_SERVICE, "ModelPredictionError")

ThreadsQuiet == \A t \in Threads : thr.pc[t] = "idle"

ThreadFrame ==
    UNCHANGED <<client, pc, call, result, assessments, store_failures,
                invocations, slept, vital_signs, wr, sc, fn>>

\* handle_error, line 144, right-hand side: self.error_count.get(key, 0)
HandleErrorRead(t) ==
    /\ thr.pc[t] = "idle"
    /\ thr.recorded < MaxRecorded
    /\ thr' = [thr EXCEPT !.pc[t] = "he_store",
                          !.tmp[t] = Get(error_count, ThreadKey),
                          !.recorded = @ + 1]
    /\ UNCHANGED <<error_count, circuit_breakers, now>>
    /\ ThreadFrame

\* handle_error, line 144, the assignment: self.error_count[key] = ... + 1
HandleErrorStore(t) ==
    /\ thr.pc[t] = "he_store"
    /\ error_count' = Put(error_count, ThreadKey, thr.tmp[t] + 1)
    /\ thr' = [thr EXCEPT !.pc[t] = "he_check"]
    /\ UNCHANGED <<circuit_breakers, now>>
    /\ ThreadFrame

\* handle_error, line 145: self._check_circuit_breaker(category, error_key)
HandleErrorCheck(t) ==
    /\ thr.pc[t] = "he_check"
    /\ circuit_breakers' =
          CheckCircuitBreaker(error_count, circuit_breakers,
                              EXTERNAL_SERVICE, ThreadKey, now)
    /\ thr' = [thr EXCEPT !.pc[t] = "idle",
                          !.opened = @ \/ ThreadKey \in DOMAIN
                                                       circuit_breakers']
    /\ UNCHANGED <<error_count, now>>
    /\ ThreadFrame

\* is_circuit_open, line 165: if service_key not in self.circuit_breakers
IsCircuitOpenTest(t) ==
    /\ thr.pc[t] = "idle"
    /\ thr' = [thr EXCEPT !.pc[t] =
                  IF ThreadKey \in DOMAIN circuit_breakers
                  THEN "ico_read" ELSE "idle"]
    /\ UNCHANGED <<error_count, circuit_breakers, now>>
    /\ ThreadFrame

\* is_circuit_open, lines 168-171: read the entry, compare with the clock
IsCircuitOpenRead(t) ==
    /\ thr.pc[t] = "ico_read"
    /\ thr' =
          IF ThreadKey \notin DOMAIN circuit_breakers
          THEN [thr EXCEPT !.pc[t] = "idle", !.key_error = TRUE]
          ELSE IF now - circuit_breakers[ThreadKey].opened_at
                     > CooldownSeconds * 100
               THEN [thr EXCEPT !.pc[t] = "ico_del"]
               ELSE [thr EXCEPT !.pc[t] = "idle"]
    /\ UNCHANGED <<error_count, circuit_breakers, now>>
    /\ ThreadFrame

\* is_circuit_open, line 172: del self.circuit_breakers[service_key]
IsCircuitOpenDel(t) ==
    /\ thr.pc[t] = "ico_del"
    /\ IF ThreadKey \in DOMAIN circuit_breakers
       THEN /\ circuit_breakers' = Del(circuit_breakers, ThreadKey)
            /\ thr' = [thr EXCEPT !.pc[t] = "idle"]
       ELSE /\ circuit_breakers' = circuit_breakers
            /\ thr' = [thr EXCEPT !.pc[t] = "idle", !.key_error = TRUE]
    /\ UNCHANGED <<error_count, now>>
    /\ ThreadFrame

\* The clock advances while the threads run.
ThreadTick ==
    /\ now + TickStep <= MaxTime
    /\ now' = now + TickStep
    /\ UNCHANGED <<error_count, circuit_breakers, thr>>
    /\ ThreadFrame

InitThreads ==
    /\ Init
    /\ client = "PatientRisk"

NextThreads ==
    \/ \E t \in Threads : HandleErrorRead(t)
    \/ \E t \in Threads : HandleErrorStore(t)
    \/ \E t \in Threads : HandleErrorCheck(t)
    \/ \E t \in Threads : IsCircuitOpenTest(t)
    \/ \E t \in Threads : IsCircuitOpenRead(t)
    \/ \E t \in Threads : IsCircuitOpenDel(t)
    \/ ThreadTick

SpecThreads == InitThreads /\ [][NextThreads]_vars

(***************************************************************************)
(* monitor_external_service around an arbitrary function: one call of the  *)
(* wrapper, attempt by attempt.  The function (the environment) returns a  *)
(* value or raises, after some duration.                                   *)
(***************************************************************************)
RetryServiceName == "svc"
TimeoutSeconds == 5

FnValues == {"r1", "r2"}
FnExceptions == {"RuntimeError", "ValueError"}
FnDurations == {100, 600}

FnOutcomes ==
    [kind : {"return"}, value : FnValues, exception : {"None"}]
    \cup [kind : {"raise"}, value : {"None"}, exception : FnExceptions]

\* log_performance_warning: a warning is logged, nothing else happens
LogPerformanceWarning(duration, threshold_seconds) ==
    duration > threshold_seconds * 100

RetryFrame ==
    UNCHANGED <<client, pc, call, result, assessments, store_failures,
                invocations, slept, thr, vital_signs, sc, fn>>

\* wrapper(*args): the circuit check, then the loop starts
RetryBegin(n) ==
    \E chk \in {IsCircuitOpen(circuit_breakers,
                              CircuitKey(RetryServiceName), now)} :
       /\ wr.pc = "idle"
       /\ circuit_breakers' = chk.cb
       /\ wr' = IF chk.open
                THEN [WrIdle EXCEPT !.retry_attempts = n,
                                    !.outcome = "raised",
                                    !.exception = CircuitOpenException]
                ELSE [WrIdle EXCEPT !.retry_attempts = n, !.pc = "attempt"]
       /\ UNCHANGED <<error_count, now>>
       /\ RetryFrame

\* One iteration of the loop: func(*args) returns or raises after d.
RetryAttempt(out, d) ==
    \E h \in {WrapperOnFailure(Handler, out.exception, now + d)} :
       /\ wr.pc = "attempt"
       /\ now + d <= MaxRetryTime
       /\ now' = now + d
       /\ IF out.kind = "return"
          THEN /\ wr' = [wr EXCEPT !.pc = "idle", !.calls = @ + 1,
                            !.duration = d,
                            !.warned = LogPerformanceWarning(
                                          d, TimeoutSeconds),
                            !.last_value = out.value,
                            !.outcome = "returned", !.value = out.value]
               /\ UNCHANGED <<error_count, circuit_breakers>>
          ELSE /\ WithinCount(h.ec)
               /\ error_count' = h.ec
               /\ circuit_breakers' = h.cb
               /\ wr' = IF IsLastAttempt(wr.attempt, wr.retry_attempts)
                        THEN [wr EXCEPT !.pc = "idle", !.calls = @ + 1,
                                 !.failures = @ + 1, !.duration = d,
                                 !.outcome = "raised",
                                 !.exception = out.exception]
                        ELSE [wr EXCEPT !.pc = "sleep", !.calls = @ + 1,
                                 !.failures = @ + 1, !.duration = d,
                                 !.exception = out.exception]
       /\ RetryFrame

\* time.sleep(wait_time), then the next iteration; when range() is
\* exhausted the loop ends and last_exception is raised.
RetrySleep ==
    /\ wr.pc = "sleep"
    /\ now' = now + BackoffWait(wr.attempt)
    /\ wr' = IF wr.attempt + 1 < wr.retry_attempts
             THEN [wr EXCEPT !.pc = "attempt", !.attempt = @ + 1,
                             !.slept = Append(@, BackoffWait(wr.attempt))]
             ELSE [wr EXCEPT !.pc = "idle", !.attempt = @ + 1,
                             !.slept = Append(@, BackoffWait(wr.attempt)),
                             !.outcome = "raised"]
    /\ UNCHANGED <<error_count, circuit_breakers>>
    /\ RetryFrame

InitRetry ==
    /\ Init
    /\ client = "PatientRisk"

NextRetry ==
    \/ \E n \in 1..MaxRetryAttempts : RetryBegin(n)
    \/ \E out \in FnOutcomes, d \in FnDurations : RetryAttempt(out, d)
    \/ RetrySleep

SpecRetry == InitRetry /\ [][NextRetry]_vars

(***************************************************************************)
(* The scoring functions of inference.py, applied to drawn arguments.      *)
(***************************************************************************)
Probabilities == {0, 4499, 4500, 6000, 6499, 6500, 8499, 8500, 10000}
ScHeartRates == {35, 72, 130}
ScSystolicBPs == {85, 120}
ScRespRates == {16, 26}
ScO2Sats == {86, 90, 98}
ScAcuities == {1, 2, 3, 4}
ScArrivals == {0, 1}
Adjustments == {0, 1999, 2000, 3999, 4000, 7500}

Patients ==
    [heartrate : ScHeartRates, sbp : ScSystolicBPs, resprate : ScRespRates,
     o2sat : ScO2Sats, acuity : ScAcuities, arrival_ambulance : ScArrivals]

ScoreFrame ==
    UNCHANGED <<error_count, circuit_breakers, now, client, pc, call,
                result, assessments, store_failures, invocations, slept,
                thr, vital_signs, wr, fn>>

\* predict_patient_risk once the model has given its probability
Score(probability, patient) ==
    /\ sc.kind = "none"
    /\ sc' = CalculateRiskScore(probability, patient)
    /\ ScoreFrame

\* escalate_risk(base_category, clinical_adjustment)
Escalate(base_category, clinical_adjustment) ==
    /\ sc.kind = "none"
    /\ sc' = [ScIdle EXCEPT !.kind = "escalate",
                 !.base_category = base_category,
                 !.clinical_adjustment = clinical_adjustment,
                 !.final_category =
                    EscalateRisk(base_category, clinical_adjustment)]
    /\ ScoreFrame

InitScore ==
    /\ Init
    /\ client = "PatientRisk"

NextScore ==
    \/ \E p \in Probabilities, patient \in Patients : Score(p, patient)
    \/ \E b \in {Levels[i] : i \in 1..Len(Levels)}, a \in Adjustments :
          Escalate(b, a)

SpecScore == InitScore /\ [][NextScore]_vars

(***************************************************************************)
(* validate_model_inputs / prepare_model_input and                         *)
(* _fallback_risk_assessment, applied to drawn arguments, among them       *)
(* values on both sides of every threshold and values out of range.        *)
(***************************************************************************)
\* Arguments of the fallback scorer
FnInputs ==
    [heart_rate : {59, 60, 100, 101}, systolic_bp : {89, 90, 140, 141},
     diastolic_bp : {60}, respiratory_rate : {11, 12, 20, 21},
     oxygen_saturation : {94, 95}, temperature : {359, 360, 380, 381},
     arrival_mode : {"Ambulance", "Walk-in"},
     acuity_level : {1, 2, 3, 4, 5, 7}]

\* Arguments of the validation
VlInputs ==
    [heart_rate : {25, 72}, systolic_bp : {45, 120},
     diastolic_bp : {15, 80, 130}, respiratory_rate : {3, 16},
     oxygen_saturation : {40, 98}, temperature : {290, 370},
     arrival_mode : {"Ambulance", "Helicopter"}, acuity_level : {2, 7}]

InputFrame ==
    UNCHANGED <<error_count, circuit_breakers, now, client, pc, call,
                result, assessments, store_failures, invocations, slept,
                thr, vital_signs, wr, sc>>

\* prepare_model_input(patient, vital_signs): validate, raise or return
Validate(in) ==
    /\ fn.kind = "none"
    /\ fn' = [FnIdle EXCEPT !.kind = "validate", !.input = in,
                 !.valid = ValidateModelInputs(in).valid,
                 !.errors = ValidateModelInputs(in).errors,
                 !.exception = PrepareModelInput(in).exception,
                 !.message =
                    IF PrepareModelInput(in).kind = "raise"
                    THEN PrepareErrorMsg(ValidateModelInputs(in).errors)
                    ELSE <<>>]
    /\ InputFrame

\* _fallback_risk_assessment(patient, vital_signs), and the category the
\* except clause derives from its result
Fallback(in) ==
    /\ fn.kind = "none"
    /\ fn' = [FnIdle EXCEPT !.kind = "fallback", !.input = in,
                 !.risk_score = FallbackRiskAssessment(in).risk_score,
                 !.risk_flag = FallbackRiskAssessment(in).risk_flag,
                 !.risk_category =
                    FallbackCategory(FallbackRiskAssessment(in))]
    /\ InputFrame

InitInput ==
    /\ Init
    /\ client = "PatientRisk"

NextInput ==
    \/ \E in \in VlInputs : Validate(in)
    \/ \E in \in FnInputs : Fallback(in)

SpecInput == InitInput /\ [][NextInput]_vars

(***************************************************************************)
(* The methods of ErrorHandler called one at a time (no two calls          *)
(* overlap) on the global handler: handle_error with any category and      *)
(* exception, is_circuit_open with any key.                                *)
(***************************************************************************)
HandlerKeys ==
    {ErrorKey(c, e) : c \in {EXTERNAL_SERVICE, BUSINESS_LOGIC},
                      e \in {"ModelPredictionError", "ValueError"}}

HandlerFrame ==
    UNCHANGED <<client, pc, call, result, assessments, store_failures,
                invocations, slept, thr, vital_signs, wr, sc, fn>>

\* global_error_handler.handle_error(exception, category, severity)
HandlerRecord(category, exc) ==
    \E h \in {HandleError(Handler, exc, category, now)} :
       /\ WithinCount(h.ec)
       /\ error_count' = h.ec
       /\ circuit_breakers' = h.cb
       /\ UNCHANGED now
       /\ HandlerFrame

\* global_error_handler.is_circuit_open(service_key)
HandlerIsOpen(service_key) ==
    /\ circuit_breakers' =
          IsCircuitOpen(circuit_breakers, service_key, now).cb
    /\ UNCHANGED <<error_count, now>>
    /\ HandlerFrame

\* The clock advances between two calls.
HandlerTick ==
    /\ now + TickStep <= MaxTime
    /\ now' = now + TickStep
    /\ UNCHANGED <<error_count, circuit_breakers>>
    /\ HandlerFrame

InitHandler ==
    /\ Init
    /\ client = "PatientRisk"

NextHandler ==
    \/ \E k \in HandlerKeys : HandlerRecord(k[1], k[2])
    \/ \E k \in HandlerKeys : HandlerIsOpen(k)
    \/ HandlerTick

SpecHandler == InitHandler /\ [][NextHandler]_vars

TypeOK ==
    /\ pc \in {"idle", "attempt", "sleep"}
    /\ client \in Clients
    /\ Len(assessments) <= MaxAssessments
    /\ WithinCount(error_count)

(***************************************************************************)
(* Vocabulary of the properties.                                           *)
(***************************************************************************)
InputValid(in) == Len(ValidationErrors(in)) = 0

CallEnded == result.kind # "none"

\* The record created by the call that just returned (the table is only
\* emptied as a whole, so while it is non-empty its last row is that record).
Recorded == result.kind = "returned" /\ Len(assessments) > 0

LastAssessment == assessments[Len(assessments)]

\* The exceptions with which a failing probability model leaves predict_risk
ModelErrors ==
    {"ModelPredictionError", "MLModelTimeoutError", "MLModelResponseError",
     "MLModelError", "PatientRiskMLError", CircuitOpenException}

ModelFailed == result.model_error # "None"

IsFallbackOf(a, in) ==
    /\ a.source = "Fallback"
    /\ a.risk_score = FallbackRiskAssessment(in).risk_score
    /\ a.risk_flag = FallbackRiskAssessment(in).risk_flag
    /\ a.input = in

DegradationCause ==
    IF InputValid(result.input) THEN result.model_error
    ELSE "MLModelValidationError"

C8_ErrorMessageBySource ==
    /\ \A i \in 1..Len(assessments) :
          /\ assessments[i].source \in {"ModelBased", "Fallback"}
          /\ assessments[i].source = "ModelBased" =>
                assessments[i].error_message = <<>>
          /\ assessments[i].source = "Fallback" =>
                /\ Len(assessments[i].error_message) = 2
                /\ assessments[i].error_message[2] \in ExceptionClasses
    /\ (Recorded /\ LastAssessment.source = "Fallback") =>
          LastAssessment.error_message[2] = DegradationCause
    /\ (Recorded /\ LastAssessment.source = "ModelBased") =>
          DegradationCause = "None"

C8_Witness ==
    /\ Len(assessments) = 2
    /\ assessments[1].source = "ModelBased"
    /\ assessments[2].source = "Fallback"

(***************************************************************************)
(* C9: a model response whose score is outside the client's range or whose *)
(* category is unrecognized is never used as the recorded assessment: the  *)
(* call degrades and the recorded assessment comes from the fallback.      *)
(***************************************************************************)
ResponseInvalid(cl, r) ==
    /\ r.kind = "response"
    /\ IF cl = "PatientRisk"
       THEN r.score < 0 \/ r.score > 10000
            \/ r.second \notin {"LOW", "MODERATE", "HIGH"}
       ELSE r.score < 0 \/ r.score > 100

C9_InvalidResponseDegrades ==
    (CallEnded /\ ResponseInvalid(client, result.response)) =>
       /\ result.kind = "raised" =>
             result.exception = "RiskAssessmentServiceError"
       /\ Recorded => IsFallbackOf(LastAssessment, result.input)

C9_Witness ==
    /\ Recorded
    /\ ResponseInvalid(client, result.response)
    /\ result.response.second = "CRITICAL"
    /\ LastAssessment.source = "Fallback"

(***************************************************************************)
(* A breaker entry recorded for failures of the probability model.         *)
(***************************************************************************)
ModelKeys == {ErrorKey(EXTERNAL_SERVICE, e) : e \in ModelErrors}

Age(k) == now - circuit_breakers[k].opened_at

\* The breaker of k is open: it was opened less than the cooldown ago.
BreakerOpen(k) ==
    /\ k \in DOMAIN circuit_breakers
    /\ Age(k) < CooldownSeconds * 100

\* The breaker of k was opened and the cooldown has elapsed since.
BreakerExpired(k) ==
    /\ k \in DOMAIN circuit_breakers
    /\ Age(k) > CooldownSeconds * 100

DependencyInvoked == invocations' = invocations + 1

(***************************************************************************)
(* C2 (as stated): while the breaker recorded for the probability model is *)
(* open and less than 300 s have passed since opened_at, a call through    *)
(* the wrapper does not invoke the wrapped function.                       *)
(***************************************************************************)
C2_OpenBreakerBlocks ==
    [][(\E k \in ModelKeys : BreakerOpen(k)) => ~DependencyInvoked]_vars

(***************************************************************************)
(* C3 (as stated): the failure count of a key advances by one for every    *)
(* failed attempt on that key (a step makes at most one attempt), and the  *)
(* breaker of the key opens exactly when the count reaches 5.              *)
(***************************************************************************)
C3_CountByOneOpensAtFive ==
    [][\A k \in ModelKeys :
          /\ Get(error_count', k) - Get(error_count, k) \in {0, 1}
          /\ (k \in DOMAIN circuit_breakers' \ DOMAIN circuit_breakers) =>
                Get(error_count', k) = BreakerThreshold]_vars

(***************************************************************************)
(* C4 (as stated): a call through the wrapper, made after the 300 s        *)
(* cooldown has elapsed since the breaker opened, clears the breaker entry *)
(* when it invokes the dependency again.                                   *)
(***************************************************************************)
C4_ExpiredBreakerCleared ==
    [][\A k \in ModelKeys :
          (BreakerExpired(k) /\ DependencyInvoked) =>
             \/ k \notin DOMAIN circuit_breakers'
             \/ circuit_breakers'[k].opened_at > circuit_breakers[k].opened_at
      ]_vars

(***************************************************************************)
(* C5 (as stated): when several threads record failures on one key and     *)
(* check or reset its breaker concurrently, the failure count equals the   *)
(* number of failures recorded, the breaker has opened once 5 failures     *)
(* have been recorded, and no check fails.                                 *)
(***************************************************************************)
C5_AtomicUpdates ==
    ThreadsQuiet =>
       /\ Get(error_count, ThreadKey) = thr.recorded
       /\ thr.recorded >= BreakerThreshold => thr.opened
       /\ ~thr.key_error

(***************************************************************************)
(* C10 (as stated): in every reachable state a breaker entry exists for a  *)
(* key only while that breaker is open, and the health view reports        *)
(* exactly the open breakers.                                              *)
(***************************************************************************)
C10_EntryOnlyWhileOpen ==
    /\ \A k \in DOMAIN circuit_breakers : Age(k) <= CooldownSeconds * 100
    /\ DOMAIN GetErrorStatistics(error_count, circuit_breakers)
                 .circuit_breakers
          = {k \in DOMAIN circuit_breakers : BreakerOpen(k)}

(***************************************************************************)
(* C11: with retry_attempts = 3 and backoff_factor = 1.5, when the wrapped *)
(* function fails twice and then succeeds, the wrapper returns the result  *)
(* of the 3rd attempt, having slept 1.0 s after the first failure and      *)
(* 1.5 s after the second, and no other sleep.                             *)
(***************************************************************************)
C11_TwoFailuresThenSuccess ==
    (wr.retry_attempts = 3 /\ wr.outcome = "returned" /\ wr.failures = 2) =>
       /\ wr.calls = 3
       /\ wr.value = wr.last_value
       /\ wr.slept = <<100, 150>>

C11_Witness ==
    /\ wr.retry_attempts = 3
    /\ wr.outcome = "returned"
    /\ wr.failures = 2
    /\ wr.value = "r2"
    /\ wr.slept = <<100, 150>>

(***************************************************************************)
(* C12: within one call of the wrapper the wrapped function is invoked at  *)
(* most retry_attempts times; the first success is returned at once, with  *)
(* no further attempt; when every attempt fails the exception of the last  *)
(* attempt is raised, with no sleep after it.                              *)
(***************************************************************************)
C12_BoundedAttempts ==
    /\ wr.calls <= wr.retry_attempts
    /\ wr.outcome # "none" => wr.pc = "idle"
    /\ wr.outcome = "returned" =>
          /\ wr.calls = wr.failures + 1
          /\ Len(wr.slept) = wr.failures
          /\ wr.value = wr.last_value
    /\ (wr.outcome = "raised" /\ wr.calls > 0) =>
          /\ wr.calls = wr.retry_attempts
          /\ wr.failures = wr.retry_attempts
          /\ Len(wr.slept) = wr.retry_attempts - 1
          /\ wr.exception \in FnExceptions

C12_Witness ==
    /\ wr.outcome = "raised"
    /\ wr.retry_attempts = 3
    /\ wr.calls = 3
    /\ wr.slept = <<100, 150>>
    /\ wr.exception = "ValueError"

(***************************************************************************)
(* C13 (as stated): an invocation of the wrapped function that runs longer *)
(* than the timeout is a failed attempt; its late result is not returned   *)
(* as a success.                                                           *)
(***************************************************************************)
C13_LateResultNotReturned ==
    wr.outcome = "returned" => wr.duration <= TimeoutSeconds * 100

(***************************************************************************)
(* C14: a failed model call never blocks vital-sign storage: for every     *)
(* failure mode of the model the vital signs of the update are stored and  *)
(* the update operation reports success to its caller.                     *)
(***************************************************************************)
C14_VitalsNotBlocked ==
    (CallEnded /\ ModelFailed) =>
       /\ vital_signs = result.input
       /\ UpdateResponse(result) = "success"

C14_Witness ==
    /\ result.kind = "raised"
    /\ ModelFailed
    /\ result.exception = "RiskAssessmentServiceError"
    /\ vital_signs = result.input
    /\ UpdateResponse(result) = "success"

(***************************************************************************)
(* C15: a step of an assessment call, also of one whose model call fails,  *)
(* leaves every RiskAssessment recorded before it in the table and         *)
(* unchanged, and no step changes a recorded RiskAssessment.  (Rows leave  *)
(* the table only through the repository's delete_for_patient, which no    *)
(* assessment call uses.)                                                  *)
(***************************************************************************)
IsPrefix(s, t) ==
    /\ Len(s) <= Len(t)
    /\ \A i \in 1..Len(s) : t[i] = s[i]

C18_EscalationNeverLowers ==
    sc.kind # "none" =>
       /\ LevelIndex(sc.final_category) >= LevelIndex(sc.base_category)
       /\ LevelIndex(sc.final_category) =
             Min(4, LevelIndex(sc.base_category)
                    + (IF sc.clinical_adjustment >= 4000 THEN 2
                       ELSE IF sc.clinical_adjustment >= 2000 THEN 1
                       ELSE 0))

C18_Witness ==
    /\ sc.kind = "escalate"
    /\ sc.base_category = "HIGH"
    /\ sc.clinical_adjustment = 4000
    /\ sc.final_category = "CRITICAL"

(***************************************************************************)
(* C19: for every probability in [0,1] and all vitals and context,         *)
(* final_score = min(ml_score + clinical_adjustment, 100) lies in [0,100], *)
(* also when ml_score + clinical_adjustment exceeds 100.                   *)
(***************************************************************************)
C19_FinalScoreClamped ==
    sc.kind = "score" =>
       /\ sc.ml_score = sc.probability
       /\ sc.final_score = Min(sc.ml_score + sc.clinical_adjustment, 10000)
       /\ 0 <= sc.final_score
       /\ sc.final_score <= 10000

C19_Witness ==
    /\ sc.kind = "score"
    /\ sc.ml_score + sc.clinical_adjustment > 10000
    /\ sc.final_score = 10000

(***************************************************************************)
(* C20: for every probability p in [0,1], the base category is LOW when    *)
(* p < 0.45, MODERATE when p < 0.65, HIGH when p < 0.85 and CRITICAL       *)
(* otherwise, and it is non-decreasing in p.                               *)
(***************************************************************************)
C20_BaseCategoryBands ==
    sc.kind = "score" =>
       /\ sc.probability < 4500 => sc.base_category = "LOW"
       /\ (4500 <= sc.probability /\ sc.probability < 6500) =>
             sc.base_category = "MODERATE"
       /\ (6500 <= sc.probability /\ sc.probability < 8500) =>
             sc.base_category = "HIGH"
       /\ 8500 <= sc.probability => sc.base_category = "CRITICAL"
       /\ \A q \in Probabilities :
             q >= sc.probability =>
                LevelIndex(MlRiskBand(q)) >= LevelIndex(sc.base_category)

C20_Witness ==
    /\ sc.kind = "score"
    /\ sc.probability = 4500
    /\ sc.base_category = "MODERATE"

(***************************************************************************)
(* C21: for heart_rate=130, systolic_bp=85, diastolic_bp=60,               *)
(* respiratory_rate=26, oxygen_saturation=86, temperature=37,              *)
(* acuity_level=4, arrival by ambulance and model probability 0.6, scoring *)
(* yields ml_score 60, clinical adjustment 75, final score clamped to 100, *)
(* base category MODERATE escalated two levels to CRITICAL, and final      *)
(* triage category HIGH.                                                   *)
(***************************************************************************)
ScenarioInput ==
    [heart_rate |-> 130, systolic_bp |-> 85, diastolic_bp |-> 60,
     respiratory_rate |-> 26, oxygen_saturation |-> 86, temperature |-> 370,
     arrival_mode |-> "Ambulance", acuity_level |-> 4]

C21_ScenarioScore ==
    (sc.kind = "score" /\ sc.probability = 6000
     /\ sc.patient = PatientData(ScenarioInput)) =>
       /\ sc.ml_score = 6000
       /\ sc.clinical_adjustment = 2000 + 1500 + 1000 + 1000 + 1500 + 500
       /\ sc.clinical_adjustment = 7500
       /\ sc.final_score = 10000
       /\ sc.risk_score = 10000
       /\ sc.base_category = "MODERATE"
       /\ sc.final_category = "CRITICAL"
       /\ sc.final_triage_category = "HIGH"

C21_Witness ==
    /\ sc.kind = "score"
    /\ sc.probability = 6000
    /\ sc.patient = PatientData(ScenarioInput)
    /\ sc.final_score = 10000
    /\ sc.final_triage_category = "HIGH"

(***************************************************************************)
(* C22: for all valid vitals and context, the fallback score equals the    *)
(* acuity base score ({1:10, 2:20, 3:40, 4:60, 5:80}) plus 10 for each of  *)
(* heart_rate outside [60,100], systolic_bp outside [90,140], temperature  *)
(* outside [36.0,38.0] and respiratory_rate outside [12,20], plus 20 if    *)
(* oxygen_saturation < 95, plus 10 if arrival is by ambulance, clamped to  *)
(* [0,100]; and the flag is true exactly when score > 50 or                *)
(* acuity_level >= 4.                                                      *)
(***************************************************************************)
Outside(x, lo, hi) == ~(lo <= x /\ x <= hi)

BaseScore == <<1000, 2000, 4000, 6000, 8000>>

C22_FallbackFormula ==
    (fn.kind = "fallback" /\ InputValid(fn.input)) =>
       LET in == fn.input
           sum == BaseScore[in.acuity_level]
                  + (IF Outside(in.heart_rate, 60, 100) THEN 1000 ELSE 0)
                  + (IF Outside(in.systolic_bp, 90, 140) THEN 1000 ELSE 0)
                  + (IF Outside(in.temperature, 360, 380) THEN 1000 ELSE 0)
                  + (IF Outside(in.respiratory_rate, 12, 20) THEN 1000 ELSE 0)
                  + (IF in.oxygen_saturation < 95 THEN 2000 ELSE 0)
                  + (IF in.arrival_mode = "Ambulance" THEN 1000 ELSE 0)
       IN /\ fn.risk_score = (IF sum > 10000 THEN 10000
                              ELSE IF sum < 0 THEN 0 ELSE sum)
          /\ fn.risk_flag = (fn.risk_score > 5000 \/ in.acuity_level >= 4)

C22_Witness ==
    /\ fn.kind = "fallback"
    /\ InputValid(fn.input)
    /\ fn.input.acuity_level = 3
    /\ fn.input.heart_rate = 100
    /\ fn.input.systolic_bp = 140
    /\ fn.input.temperature = 380
    /\ fn.input.respiratory_rate = 20
    /\ fn.input.oxygen_saturation = 95
    /\ fn.input.arrival_mode = "Ambulance"
    /\ fn.risk_score = 5000
    /\ ~fn.risk_flag

Violated(in, check) ==
    CASE check = "heart_rate" -> Outside(in.heart_rate, 30, 200)
      [] check = "systolic_bp" -> Outside(in.systolic_bp, 50, 300)
      [] check = "diastolic_bp" -> Outside(in.diastolic_bp, 20, 200)
      [] check = "respiratory_rate" -> Outside(in.respiratory_rate, 5, 60)
      [] check = "oxygen_saturation" ->
            Outside(in.oxygen_saturation, 50, 100)
      [] check = "temperature" -> Outside(in.temperature, 300, 450)
      [] check = "acuity_level" -> Outside(in.acuity_level, 1, 5)
      [] check = "arrival_mode" ->
            in.arrival_mode \notin {"Ambulance", "Walk-in"}
      [] check = "bp_relationship" -> ~(in.diastolic_bp < in.systolic_bp)

ViolatedIn(in, order) ==
    LET Test(check) == Violated(in, check)
    IN SelectSeq(order, Test)

\* Range checks first, then the relationship
RangeFirstOrder ==
    <<"heart_rate", "systolic_bp", "diastolic_bp", "respiratory_rate",
      "oxygen_saturation", "temperature", "acuity_level", "arrival_mode",
      "bp_relationship">>

\* The order in which the validation makes its checks
CheckOrder ==
    <<"heart_rate", "systolic_bp", "diastolic_bp", "respiratory_rate",
      "oxygen_saturation", "temperature", "bp_relationship",
      "arrival_mode", "acuity_level">>

(***************************************************************************)
(* C24 (as stated): input validation fails fast: on invalid input the      *)
(* reported error names the first violated field (range checks first,      *)
(* then the diastolic_bp < systolic_bp relationship) and stops there.      *)
(***************************************************************************)
C24_Original ==
    (fn.kind = "validate" /\ ~fn.valid) =>
       fn.message = PrepareErrorMsg(
                       <<ViolatedIn(fn.input, RangeFirstOrder)[1]>>)

(***************************************************************************)
(* C24 (amended): input validation does not fail fast: it makes every      *)
(* check, in the order heart_rate, systolic_bp, diastolic_bp,              *)
(* respiratory_rate, oxygen_saturation, temperature, then the              *)
(* diastolic_bp < systolic_bp relationship, then arrival_mode and          *)
(* acuity_level, and on invalid input the reported error lists every       *)
(* violated check in that order, the first violated check first;           *)
(* validation has no side effect.                                          *)
(***************************************************************************)
C24_AllViolationsInOrder ==
    [][fn'.kind = "validate" =>
          /\ fn'.valid = (ViolatedIn(fn'.input, CheckOrder) = <<>>)
          /\ fn'.errors = ViolatedIn(fn'.input, CheckOrder)
          /\ ~fn'.valid =>
                /\ fn'.exception = "MLModelValidationError"
                /\ fn'.message =
                      PrepareErrorMsg(ViolatedIn(fn'.input, CheckOrder))
                /\ fn'.message[2] = ViolatedIn(fn'.input, CheckOrder)[1]
          /\ fn'.valid => fn'.exception = "None"
          /\ UNCHANGED <<error_count, circuit_breakers, now, assessments,
                         vital_signs, result, store_failures>>]_vars

C24_Witness ==
    /\ fn.kind = "validate"
    /\ ~fn.valid
    /\ fn.exception = "MLModelValidationError"
    /\ fn.message = <<"Model input validation failed", "bp_relationship",
                      "acuity_level">>

(***************************************************************************)
(* C28 (as stated): one call of _perform_risk_assessment creates exactly   *)
(* one RiskAssessment record when it returns and none when it raises, also *)
(* when its retry wrapper re-runs the body after a failure to store the    *)
(* record: within a call, only the attempt that returns adds a row, and it *)
(* adds one.                                                               *)
(***************************************************************************)
C28_OneRecordPerCall ==
    [][pc = "attempt" =>
          IF pc' = "idle" /\ result'.kind = "returned"
          THEN Len(assessments') = Len(assessments) + 1
          ELSE assessments' = assessments]_vars

(***************************************************************************)
(* C25: breaker entries are only ever stored under keys of the form        *)
(* '<category>_<exception class name>', never under                        *)
(* 'external_service_<service_name>', the key the retry wrapper consults;  *)
(* so in every reachable state the wrapper's circuit check for             *)
(* 'ml_risk_model' and 'patient_risk_ml_model' finds no entry and the call *)
(* proceeds to invoke the wrapped function.                                *)
(***************************************************************************)
ServiceNames == {"ml_risk_model", "patient_risk_ml_model"}

C25_WrapperKeyNeverStored ==
    /\ \A k \in DOMAIN circuit_breakers :
          /\ k[1] = EXTERNAL_SERVICE
          /\ k[2] \in ExceptionClasses
          /\ k[2] \notin ServiceNames
    /\ \A sn \in ServiceNames :
          /\ CircuitKey(sn) \notin DOMAIN circuit_breakers
          /\ ~IsCircuitOpen(circuit_breakers, CircuitKey(sn), now).open
    /\ CallEnded =>
          /\ result.exception # CircuitOpenException
          /\ result.model_error # CircuitOpenException
          /\ InputValid(result.input) => invocations >= 1

C25_Witness ==
    /\ CallEnded
    /\ invocations = 1
    /\ ErrorKey(EXTERNAL_SERVICE, "ModelPredictionError")
          \in DOMAIN circuit_breakers
    /\ Get(error_count, ErrorKey(EXTERNAL_SERVICE, "ModelPredictionError"))
          = 8

(***************************************************************************)
(* C26: the per-key failure count never decreases: neither a successful    *)
(* call nor the cooldown reset of a breaker entry lowers it; consequently, *)
(* once a key's count has reached 5 and its entry has been cleared after   *)
(* the cooldown, the very next failure on that key re-creates the entry.   *)
(***************************************************************************)
C26_CountNeverDecreases ==
    [][\A k \in HandlerKeys :
          /\ Get(error_count', k) >= Get(error_count, k)
          /\ (k \in DOMAIN circuit_breakers
              /\ k \notin DOMAIN circuit_breakers') =>
                Get(error_count', k) = Get(error_count, k)
          /\ (/\ k[1] = EXTERNAL_SERVICE
              /\ Get(error_count, k) >= BreakerThreshold
              /\ k \notin DOMAIN circuit_breakers
              /\ Get(error_count', k) > Get(error_count, k)) =>
                /\ k \in DOMAIN circuit_breakers'
                /\ circuit_breakers'[k].opened_at = now
                /\ circuit_breakers'[k].error_count = Get(error_count', k)
      ]_vars

C26_Witness ==
    \E k \in HandlerKeys :
       /\ k \in DOMAIN circuit_breakers
       /\ circuit_breakers[k].error_count = BreakerThreshold + 1
       /\ circuit_breakers[k].opened_at > CooldownSeconds * 100

(***************************************************************************)
(* C30: while a breaker entry exists for a key, further failures recorded  *)
(* on that key leave the entry's opened_at and stored error_count          *)
(* unchanged, so the 300 s cooldown is always measured from the first      *)
(* opening and is not extended by failures during the open period.         *)
(***************************************************************************)
C30_EntryNotRefreshed ==
    [][\A k \in DOMAIN circuit_breakers :
          /\ k \in DOMAIN circuit_breakers' =>
                circuit_breakers'[k] = circuit_breakers[k]
          /\ Get(error_count', k) > Get(error_count, k) =>
                k \in DOMAIN circuit_breakers'
          /\ k \notin DOMAIN circuit_breakers' =>
                now - circuit_breakers[k].opened_at > CooldownSeconds * 100
      ]_vars

C30_Witness ==
    \E k \in HandlerKeys :
       /\ k \in DOMAIN circuit_breakers
       /\ circuit_breakers[k].opened_at = 0
       /\ circuit_breakers[k].error_count = BreakerThreshold
       /\ now > 0
       /\ Get(error_count, k) = BreakerThreshold + 2

(***************************************************************************)
(* C27: each failed invocation of PatientRiskMLClient.predict_risk raises  *)
(* the failure count of its key by exactly 2 (once in the error_context    *)
(* block inside the function, once in the retry wrapper around it), so     *)
(* starting from a count of 0 the breaker entry for that key is created    *)
(* during the 3rd failed call, when the count passes from 4 to 6, and      *)
(* stores the count 5.                                                     *)
(***************************************************************************)
PredictKey == ErrorKey(EXTERNAL_SERVICE, "ModelPredictionError")

C27_FailureCountsTwice ==
    [][client = "PatientRisk" =>
          /\ Get(error_count', PredictKey) - Get(error_count, PredictKey)
                \in {0, 2}
          /\ Get(error_count', PredictKey) > Get(error_count, PredictKey) =>
                DependencyInvoked
          /\ (DependencyInvoked /\ pc' = "idle") =>
                (result'.model_error = "ModelPredictionError"
                 <=> Get(error_count', PredictKey)
                        = Get(error_count, PredictKey) + 2)
          /\ PredictKey \in DOMAIN circuit_breakers'
                <=> Get(error_count', PredictKey) >= 6
          /\ (PredictKey \notin DOMAIN circuit_breakers
              /\ PredictKey \in DOMAIN circuit_breakers') =>
                /\ Get(error_count, PredictKey) = 4
                /\ Get(error_count', PredictKey) = 6
                /\ circuit_breakers'[PredictKey].error_count = 5]_vars

C27_Witness ==
    /\ client = "PatientRisk"
    /\ result.model_error = "ModelPredictionError"
    /\ PredictKey \in DOMAIN circuit_breakers
    /\ circuit_breakers[PredictKey].error_count = 5
    /\ Get(error_count, PredictKey) = 6

(***************************************************************************)
(* C29: every assessment recorded through the PatientRiskMLClient path or  *)
(* through the fallback path satisfies risk_flag = true if and only if     *)
(* risk_category = HIGH; on the fallback path the recorded category is     *)
(* never MODERATE.                                                         *)
(***************************************************************************)
C29_FlagIffHigh ==
    \A i \in 1..Len(assessments) :
       /\ assessments[i].source = "ModelBased" => client = "PatientRisk"
       /\ assessments[i].risk_flag <=> assessments[i].risk_category = "HIGH"
       /\ assessments[i].source = "Fallback" =>
             /\ assessments[i].risk_category \in {"LOW", "HIGH"}
             /\ assessments[i].risk_category = "HIGH" <=>
                   \/ assessments[i].risk_score > 5000
                   \/ assessments[i].input.acuity_level >= 4

C29_Witness ==
    /\ Len(assessments) = 2
    /\ assessments[1].source = "ModelBased"
    /\ assessments[1].risk_category = "MODERATE"
    /\ ~assessments[1].risk_flag
    /\ assessments[2].source = "Fallback"
    /\ assessments[2].risk_score = 5000
    /\ assessments[2].risk_category = "LOW"
    /\ ~assessments[2].risk_flag

====
